---- MODULE Spec2Model ----
(***************************************************************************)
(* State-machine model of the EscapeVelocityGameFHE contract               *)
(* (src/unnamed/part_001).                                                 *)
(*                                                                         *)
(* Every external function f is one action f(sender, args) that models a   *)
(* call that returns: its guard is the chain of modifiers and checks of    *)
(* the function in source order, its primed variables are the writes.  A   *)
(* call that reverts changes nothing (that is what revert means on the     *)
(* EVM), so it is no step; the error it reverts with is the state function *)
(* fErr(sender, args), which is "ok" exactly when the call returns.        *)
(*                                                                         *)
(* Ciphertext handles (euint32 / ebool) are opaque bytes32 values made by  *)
(* the FHE library.  The library derives the handle of a result from the   *)
(* operation and the handles of its operands, so a handle is modelled as   *)
(* the prefix-notation term that produced it, a sequence of integers; the  *)
(* empty sequence is the zero handle, the one FHE.isInitialized rejects.   *)
(* keccak256 is modelled as injective: a digest is the data it hashes.     *)
(* The cleartexts of a callback are covered by the proof and only copied   *)
(* into the event; the model keeps the proof's verdict and leaves the      *)
(* cleartext words out.                                                    *)
(***************************************************************************)
EXTENDS Integers, Sequences, FiniteSets, TLC

\* ------------------------------------------------------------------ bounds
MaxBatchId == 1         \* openBatch stops advancing currentBatchId here
MaxRequests == 1        \* decryption requests the oracle hands out
MaxTicks == 1           \* block timestamps after the deployment block

\* ----------------------------------------------------- inputs of the calls
DefaultCooldown == 30
BaseWealth == 100
BaseThreshold == 1000
ThresholdGrowthRate == 50

Addresses == {"a1", "a2"}
Deployer == "a1"
Players == {0, 1}
\* requestEscapeCheck is open to anyone; the caller explored is the address
\* that starts as neither owner nor provider and may be enrolled later.
Requesters == {"a2"}
CooldownChoices == {0, DefaultCooldown, 2 * DefaultCooldown}
\* Block timestamps: the constructor runs at the first instant at which an
\* address that never acted is out of the default cooldown, and time then
\* advances in steps of the default cooldown.
DeployTime == DefaultCooldown
TickSeconds == DefaultCooldown
MaxTime == DeployTime + MaxTicks * TickSeconds
\* Request ids a callback can name: those the oracle hands out and one more.
RequestIds == 0 .. MaxRequests
WealthKeys == Players \cup (0 .. MaxBatchId)

\* ------------------------------------------------------ ciphertext handles
NoHandle == <<>>
InputHandle(i) == <<1, i>>
InputHandles == {InputHandle(1), InputHandle(2)}
SubmittedHandles == InputHandles \cup {NoHandle}

isInitialized(h) == h # NoHandle

\* Trivial encryption of a plaintext.  The plaintexts the contract encrypts
\* (100, 1000, 50 and a batch id of at most MaxBatchId) are far below 2^32,
\* so the truncation to 32 bits never changes them.
asEuint32(v) == <<2, v>>

\* FHE.add / FHE.mul / FHE.ge replace an uninitialized operand by the trivial
\* encryption of 0 before they call the coprocessor.
Operand(h) == IF isInitialized(h) THEN h ELSE asEuint32(0)

add(a, b) == <<3>> \o Operand(a) \o Operand(b)

mul(a, b) == <<4>> \o Operand(a) \o Operand(b)

ge(a, b) == <<5>> \o Operand(a) \o Operand(b)

\* The number of elements of the term that starts at position i of h.
RECURSIVE termLen(_, _)
termLen(h, i) ==
    IF h[i] \in {1, 2} THEN 2
    ELSE 1 + termLen(h, i + 1) + termLen(h, i + 1 + termLen(h, i + 1))

\* The plaintext of the term that starts at position i of h, for terms built
\* from trivial encryptions: FHE.add and FHE.mul compute on the plaintexts,
\* FHE.ge yields 1 or 0.  The values stay far below 2^32 (see asEuint32).
RECURSIVE decryptAt(_, _)
decryptAt(h, i) ==
    LET l == decryptAt(h, i + 1)
        r == decryptAt(h, i + 1 + termLen(h, i + 1))
    IN CASE h[i] = 2 -> h[i + 1]
         [] h[i] = 3 -> l + r
         [] h[i] = 4 -> l * r
         [] h[i] = 5 -> IF l >= r THEN 1 ELSE 0

\* The plaintext of an initialized handle.
decrypt(h) == decryptAt(h, 1)

toBytes32(h) == h

NoHash == <<>>

ThisContract == "EscapeVelocityGameFHE"

_hashCiphertexts(cts) == <<cts, ThisContract>>

\* One use of a homomorphic operation: the operation and its two operands.
FheCall(op, lhs, rhs) == [op |-> op, lhs |-> lhs, rhs |-> rhs]

\* --------------------------------------------------------------- the state
VARIABLES
    owner,
    providers,
    paused,
    cooldownSeconds,
    lastSubmissionTime,
    lastDecryptionRequestTime,
    decryptionContexts,
    currentBatchId,
    batchOpen,
    encryptedPlayerWealth,
    encryptedEscapeVelocityThreshold,
    encryptedBaseWealth,
    encryptedBaseThreshold,
    encryptedThresholdGrowthRate,
    now,              \* block.timestamp
    nextRequestId,    \* the decryption oracle's request counter
    requested,        \* per request id: the arguments and snapshot of the request
    completed         \* per request id: the batch ids of its DecryptionCompleted events

roleVars == <<owner, providers>>
cooldownVars == <<lastSubmissionTime, lastDecryptionRequestTime>>
batchVars == <<currentBatchId, batchOpen>>
cipherVars == <<encryptedPlayerWealth, encryptedEscapeVelocityThreshold,
                encryptedBaseWealth, encryptedBaseThreshold,
                encryptedThresholdGrowthRate>>
oracleVars == <<nextRequestId, requested>>
storage == <<owner, providers, paused, cooldownSeconds, lastSubmissionTime,
             lastDecryptionRequestTime, decryptionContexts, currentBatchId,
             batchOpen, encryptedPlayerWealth,
             encryptedEscapeVelocityThreshold, encryptedBaseWealth,
             encryptedBaseThreshold, encryptedThresholdGrowthRate>>
vars == <<owner, providers, paused, cooldownSeconds, lastSubmissionTime,
          lastDecryptionRequestTime, decryptionContexts, currentBatchId,
          batchOpen, encryptedPlayerWealth,
          encryptedEscapeVelocityThreshold, encryptedBaseWealth,
          encryptedBaseThreshold, encryptedThresholdGrowthRate,
          now, nextRequestId, requested, completed>>

DecryptionContext(b, h, p) == [batchId |-> b, stateHash |-> h, processed |-> p]

NoRequest == [playerId |-> -1, wealth |-> NoHandle, threshold |-> NoHandle]

Init ==
    /\ owner = Deployer
    /\ providers = {Deployer}
    /\ paused = FALSE
    /\ cooldownSeconds = DefaultCooldown
    /\ lastSubmissionTime = [a \in Addresses |-> 0]
    /\ lastDecryptionRequestTime = [a \in Addresses |-> 0]
    /\ decryptionContexts = [r \in RequestIds |-> DecryptionContext(0, NoHash, FALSE)]
    /\ currentBatchId = 0
    /\ batchOpen = FALSE
    /\ encryptedPlayerWealth = [p \in WealthKeys |-> NoHandle]
    /\ encryptedEscapeVelocityThreshold = NoHandle
    /\ encryptedBaseWealth = NoHandle
    /\ encryptedBaseThreshold = NoHandle
    /\ encryptedThresholdGrowthRate = NoHandle
    /\ now = DeployTime
    /\ nextRequestId = 0
    /\ requested = [r \in RequestIds |-> NoRequest]
    /\ completed = [r \in RequestIds |-> <<>>]

\* ------------------------------------------------------------- the guards
\* Variant: the owner check also requires the provider flag.
onlyOwner_AndProvider(sender) == sender = owner /\ sender \in providers

onlyOwner(sender) == sender = owner

onlyProvider(sender) == sender \in providers

whenNotPaused == ~paused

\* Variant: the submission cooldown is not enforced.
checkSubmissionCooldown_Off(a) == TRUE

checkSubmissionCooldown(a) == ~(now < lastSubmissionTime[a] + cooldownSeconds)

checkDecryptionCooldown(a) == ~(now < lastDecryptionRequestTime[a] + cooldownSeconds)

\* --------------------------------------------------------- access control
transferOwnershipErr(sender) ==
    IF ~onlyOwner(sender) THEN "NotOwner" ELSE "ok"

\* Variant: the new owner is enrolled as a provider.
transferOwnership_GrantsProvider(sender, newOwner) ==
    /\ transferOwnershipErr(sender) = "ok"
    /\ owner' = newOwner
    /\ providers' = providers \cup {newOwner}
    /\ UNCHANGED <<paused, cooldownSeconds, cooldownVars,
                   decryptionContexts, batchVars, cipherVars, now, oracleVars,
                   completed>>

transferOwnership(sender, newOwner) ==
    /\ transferOwnershipErr(sender) = "ok"
    /\ owner' = newOwner
    /\ UNCHANGED <<providers, paused, cooldownSeconds, cooldownVars,
                   decryptionContexts, batchVars, cipherVars, now, oracleVars,
                   completed>>

\* Variant: addProvider lacks the onlyOwner modifier.
addProviderErr_NoOwnerCheck(sender) == "ok"

addProviderErr(sender) ==
    IF ~onlyOwner(sender) THEN "NotOwner" ELSE "ok"

\* Variant: addProvider flips the provider flag of the address.
addProvider_Toggle(sender, provider) ==
    /\ addProviderErr(sender) = "ok"
    /\ providers' = IF provider \in providers THEN providers \ {provider}
                    ELSE providers \cup {provider}
    /\ UNCHANGED <<owner, paused, cooldownSeconds, cooldownVars,
                   decryptionContexts, batchVars, cipherVars, now, oracleVars,
                   completed>>

addProvider(sender, provider) ==
    /\ addProviderErr(sender) = "ok"
    /\ providers' = providers \cup {provider}
    /\ UNCHANGED <<owner, paused, cooldownSeconds, cooldownVars,
                   decryptionContexts, batchVars, cipherVars, now, oracleVars,
                   completed>>

removeProviderErr(sender) ==
    IF ~onlyOwner(sender) THEN "NotOwner" ELSE "ok"

removeProvider(sender, provider) ==
    /\ removeProviderErr(sender) = "ok"
    /\ providers' = providers \ {provider}
    /\ UNCHANGED <<owner, paused, cooldownSeconds, cooldownVars,
                   decryptionContexts, batchVars, cipherVars, now, oracleVars,
                   completed>>

pauseErr(sender) ==
    IF ~onlyOwner(sender) THEN "NotOwner"
    ELSE IF ~whenNotPaused THEN "Paused"
    ELSE "ok"

pause(sender) ==
    /\ pauseErr(sender) = "ok"
    /\ paused' = TRUE
    /\ UNCHANGED <<roleVars, cooldownSeconds, cooldownVars,
                   decryptionContexts, batchVars, cipherVars, now, oracleVars,
                   completed>>

\* Variant: unpause requires the contract to be paused.
unpauseErr_RequiresPaused(sender) ==
    IF ~onlyOwner(sender) THEN "NotOwner"
    ELSE IF ~paused THEN "NotPaused"
    ELSE "ok"

unpauseErr(sender) ==
    IF ~onlyOwner(sender) THEN "NotOwner" ELSE "ok"

unpause(sender) ==
    /\ unpauseErr(sender) = "ok"
    /\ paused' = FALSE
    /\ UNCHANGED <<roleVars, cooldownSeconds, cooldownVars,
                   decryptionContexts, batchVars, cipherVars, now, oracleVars,
                   completed>>

\* Variant: a cooldown length of zero is accepted.
setCooldownSecondsErr_NoZeroCheck(sender, newCooldownSeconds) ==
    IF ~onlyOwner(sender) THEN "NotOwner" ELSE "ok"

setCooldownSecondsErr(sender, newCooldownSeconds) ==
    IF ~onlyOwner(sender) THEN "NotOwner"
    ELSE IF newCooldownSeconds = 0 THEN "InvalidParameters"
    ELSE "ok"

setCooldownSeconds(sender, newCooldownSeconds) ==
    /\ setCooldownSecondsErr(sender, newCooldownSeconds) = "ok"
    /\ cooldownSeconds' = newCooldownSeconds
    /\ UNCHANGED <<roleVars, paused, cooldownVars,
                   decryptionContexts, batchVars, cipherVars, now, oracleVars,
                   completed>>

\* --------------------------------------------------------- batch lifecycle
_requireInitializedErr(value) ==
    IF ~isInitialized(value) THEN "NotInitialized" ELSE "ok"

\* _requireInitialized of base and growth rate, then base + growth * batchId.
_calculateInitialThresholdErr(base, growth) ==
    IF _requireInitializedErr(base) # "ok" THEN "NotInitialized"
    ELSE _requireInitializedErr(growth)

\* Variant: the threshold does not depend on the batch id.
_calculateInitialThreshold_NoGrowth(base, growth, batchId) ==
    add(base, mul(growth, asEuint32(0)))

\* Variant: the growth rate and the batch id are added, not multiplied.
_calculateInitialThreshold_AddsGrowth(base, growth, batchId) ==
    add(base, add(growth, asEuint32(batchId)))

_calculateInitialThreshold(base, growth, batchId) ==
    add(base, mul(growth, asEuint32(batchId)))

_calculateInitialThresholdCalls(base, growth, batchId) ==
    {FheCall("mul", growth, asEuint32(batchId)),
     FheCall("add", base, mul(growth, asEuint32(batchId)))}

\* Variant: openBatch advances the batch id whether or not a batch is open.
openBatchId_AlwaysAdvance == currentBatchId + 1

\* currentBatchId after the conditional increment of openBatch.
openBatchId == IF batchOpen THEN currentBatchId + 1 ELSE currentBatchId

openBatchErr(sender) ==
    IF ~onlyOwner(sender) THEN "NotOwner"
    ELSE IF ~whenNotPaused THEN "Paused"
    ELSE _calculateInitialThresholdErr(asEuint32(BaseThreshold),
                                       asEuint32(ThresholdGrowthRate))

openBatchCalls(sender) ==
    IF openBatchErr(sender) \in {"NotOwner", "Paused"} THEN {}
    ELSE _calculateInitialThresholdCalls(asEuint32(BaseThreshold),
                                         asEuint32(ThresholdGrowthRate),
                                         openBatchId)

\* Variant: the threshold is computed before the batch id advances.
openBatch_StaleThreshold(sender) ==
    /\ openBatchId <= MaxBatchId
    /\ openBatchErr(sender) = "ok"
    /\ currentBatchId' = openBatchId
    /\ batchOpen' = TRUE
    /\ encryptedBaseWealth' = asEuint32(BaseWealth)
    /\ encryptedBaseThreshold' = asEuint32(BaseThreshold)
    /\ encryptedThresholdGrowthRate' = asEuint32(ThresholdGrowthRate)
    /\ encryptedEscapeVelocityThreshold' =
           _calculateInitialThreshold(asEuint32(BaseThreshold),
                                      asEuint32(ThresholdGrowthRate),
                                      currentBatchId)
    /\ UNCHANGED <<roleVars, paused, cooldownSeconds, cooldownVars,
                   decryptionContexts, encryptedPlayerWealth, now, oracleVars,
                   completed>>

openBatch(sender) ==
    /\ openBatchId <= MaxBatchId
    /\ openBatchErr(sender) = "ok"
    /\ currentBatchId' = openBatchId
    /\ batchOpen' = TRUE
    /\ encryptedBaseWealth' = asEuint32(BaseWealth)
    /\ encryptedBaseThreshold' = asEuint32(BaseThreshold)
    /\ encryptedThresholdGrowthRate' = asEuint32(ThresholdGrowthRate)
    /\ encryptedEscapeVelocityThreshold' =
           _calculateInitialThreshold(asEuint32(BaseThreshold),
                                      asEuint32(ThresholdGrowthRate),
                                      openBatchId)
    /\ UNCHANGED <<roleVars, paused, cooldownSeconds, cooldownVars,
                   decryptionContexts, encryptedPlayerWealth, now, oracleVars,
                   completed>>

\* Variant: closeBatch does not look at batchOpen.
closeBatchErr_NoOpenCheck(sender) ==
    IF ~onlyOwner(sender) THEN "NotOwner"
    ELSE IF ~whenNotPaused THEN "Paused"
    ELSE "ok"

\* Variant: closeBatch lacks the whenNotPaused modifier.
closeBatchErr_NoPauseCheck(sender) ==
    IF ~onlyOwner(sender) THEN "NotOwner"
    ELSE IF ~batchOpen THEN "BatchNotOpen"
    ELSE "ok"

closeBatchErr(sender) ==
    IF ~onlyOwner(sender) THEN "NotOwner"
    ELSE IF ~whenNotPaused THEN "Paused"
    ELSE IF ~batchOpen THEN "BatchNotOpen"
    ELSE "ok"

\* Variant: closing a batch clears the wealth store.
closeBatch_ClearsWealth(sender) ==
    /\ closeBatchErr(sender) = "ok"
    /\ batchOpen' = FALSE
    /\ encryptedPlayerWealth' = [p \in WealthKeys |-> NoHandle]
    /\ UNCHANGED <<roleVars, paused, cooldownSeconds, cooldownVars,
                   decryptionContexts, currentBatchId,
                   encryptedEscapeVelocityThreshold, encryptedBaseWealth,
                   encryptedBaseThreshold, encryptedThresholdGrowthRate, now,
                   oracleVars, completed>>

\* Variant: closing a batch marks its pending requests as processed.
closeBatch_ExpiresRequests(sender) ==
    /\ closeBatchErr(sender) = "ok"
    /\ batchOpen' = FALSE
    /\ decryptionContexts' =
           [r \in RequestIds |->
               IF decryptionContexts[r].stateHash # NoHash
               THEN DecryptionContext(decryptionContexts[r].batchId,
                                      decryptionContexts[r].stateHash, TRUE)
               ELSE decryptionContexts[r]]
    /\ UNCHANGED <<roleVars, paused, cooldownSeconds, cooldownVars,
                   currentBatchId, cipherVars, now, oracleVars, completed>>

closeBatch(sender) ==
    /\ closeBatchErr(sender) = "ok"
    /\ batchOpen' = FALSE
    /\ UNCHANGED <<roleVars, paused, cooldownSeconds, cooldownVars,
                   decryptionContexts, currentBatchId, cipherVars, now,
                   oracleVars, completed>>

\* ------------------------------------------------------------- submission
\* Variant: the pause flag is tested before the provider flag.
submitPlayerWealthErr_PausedFirst(sender, playerId, encryptedWealth) ==
    IF ~whenNotPaused THEN "Paused"
    ELSE IF ~onlyProvider(sender) THEN "NotProvider"
    ELSE IF ~checkSubmissionCooldown(sender) THEN "CooldownActive"
    ELSE IF ~batchOpen THEN "BatchNotOpen"
    ELSE _requireInitializedErr(encryptedWealth)

\* Variant: the batch-open check is missing.
submitPlayerWealthErr_NoBatchCheck(sender, playerId, encryptedWealth) ==
    IF ~onlyProvider(sender) THEN "NotProvider"
    ELSE IF ~whenNotPaused THEN "Paused"
    ELSE IF ~checkSubmissionCooldown(sender) THEN "CooldownActive"
    ELSE _requireInitializedErr(encryptedWealth)

submitPlayerWealthErr(sender, playerId, encryptedWealth) ==
    IF ~onlyProvider(sender) THEN "NotProvider"
    ELSE IF ~whenNotPaused THEN "Paused"
    ELSE IF ~checkSubmissionCooldown(sender) THEN "CooldownActive"
    ELSE IF ~batchOpen THEN "BatchNotOpen"
    ELSE _requireInitializedErr(encryptedWealth)

\* Variant: the submission is added to the stored wealth instead of replacing it.
submitPlayerWealth_Accumulate(sender, playerId, encryptedWealth) ==
    /\ submitPlayerWealthErr(sender, playerId, encryptedWealth) = "ok"
    /\ encryptedPlayerWealth' =
           [encryptedPlayerWealth EXCEPT
               ![playerId] = IF isInitialized(@) THEN add(@, encryptedWealth)
                             ELSE encryptedWealth]
    /\ lastSubmissionTime' = [lastSubmissionTime EXCEPT ![sender] = now]
    /\ UNCHANGED <<roleVars, paused, cooldownSeconds, lastDecryptionRequestTime,
                   decryptionContexts, batchVars,
                   encryptedEscapeVelocityThreshold, encryptedBaseWealth,
                   encryptedBaseThreshold, encryptedThresholdGrowthRate,
                   now, oracleVars, completed>>

submitPlayerWealth(sender, playerId, encryptedWealth) ==
    /\ submitPlayerWealthErr(sender, playerId, encryptedWealth) = "ok"
    /\ encryptedPlayerWealth' =
           [encryptedPlayerWealth EXCEPT ![playerId] = encryptedWealth]
    /\ lastSubmissionTime' = [lastSubmissionTime EXCEPT ![sender] = now]
    /\ UNCHANGED <<roleVars, paused, cooldownSeconds, lastDecryptionRequestTime,
                   decryptionContexts, batchVars,
                   encryptedEscapeVelocityThreshold, encryptedBaseWealth,
                   encryptedBaseThreshold, encryptedThresholdGrowthRate,
                   now, oracleVars, completed>>

\* ------------------------------------------------- decryption oracle round
\* Variant: the snapshot lists the threshold before the wealth.
Snapshot_ThresholdFirst(playerWealth, currentThreshold) ==
    <<toBytes32(currentThreshold), toBytes32(playerWealth),
      toBytes32(ge(playerWealth, currentThreshold))>>

\* The three handles handed to the oracle: wealth, threshold, wealth >= threshold.
Snapshot(playerWealth, currentThreshold) ==
    <<toBytes32(playerWealth), toBytes32(currentThreshold),
      toBytes32(ge(playerWealth, currentThreshold))>>

\* Variant: requestEscapeCheck carries the onlyProvider modifier.
requestEscapeCheckErr_ProviderOnly(sender, playerId) ==
    IF ~onlyProvider(sender) THEN "NotProvider"
    ELSE IF ~whenNotPaused THEN "Paused"
    ELSE IF ~checkDecryptionCooldown(sender) THEN "CooldownActive"
    ELSE IF ~batchOpen THEN "BatchNotOpen"
    ELSE IF _requireInitializedErr(encryptedPlayerWealth[playerId]) # "ok"
         THEN "NotInitialized"
    ELSE _requireInitializedErr(encryptedEscapeVelocityThreshold)

requestEscapeCheckErr(sender, playerId) ==
    IF ~whenNotPaused THEN "Paused"
    ELSE IF ~checkDecryptionCooldown(sender) THEN "CooldownActive"
    ELSE IF ~batchOpen THEN "BatchNotOpen"
    ELSE IF _requireInitializedErr(encryptedPlayerWealth[playerId]) # "ok"
         THEN "NotInitialized"
    ELSE _requireInitializedErr(encryptedEscapeVelocityThreshold)

requestEscapeCheckCalls(sender, playerId) ==
    IF requestEscapeCheckErr(sender, playerId) # "ok" THEN {}
    ELSE {FheCall("ge", encryptedPlayerWealth[playerId],
                  encryptedEscapeVelocityThreshold)}

\* Variant: a request is recorded on the caller's submission clock.
requestEscapeCheck_SharedClock(sender, playerId) ==
    LET playerWealth == encryptedPlayerWealth[playerId]
        currentThreshold == encryptedEscapeVelocityThreshold
        stateHash == _hashCiphertexts(Snapshot(playerWealth, currentThreshold))
        requestId == nextRequestId
    IN
    /\ nextRequestId < MaxRequests
    /\ requestEscapeCheckErr(sender, playerId) = "ok"
    /\ decryptionContexts' =
           [decryptionContexts EXCEPT ![requestId] =
                DecryptionContext(currentBatchId, stateHash, FALSE)]
    /\ lastSubmissionTime' = [lastSubmissionTime EXCEPT ![sender] = now]
    /\ nextRequestId' = nextRequestId + 1
    /\ requested' = [requested EXCEPT ![requestId] =
                        [playerId |-> playerId, wealth |-> playerWealth,
                         threshold |-> currentThreshold]]
    /\ UNCHANGED <<roleVars, paused, cooldownSeconds, lastDecryptionRequestTime,
                   batchVars, cipherVars, now, completed>>

requestEscapeCheck(sender, playerId) ==
    LET playerWealth == encryptedPlayerWealth[playerId]
        currentThreshold == encryptedEscapeVelocityThreshold
        stateHash == _hashCiphertexts(Snapshot(playerWealth, currentThreshold))
        requestId == nextRequestId
    IN
    /\ nextRequestId < MaxRequests
    /\ requestEscapeCheckErr(sender, playerId) = "ok"
    /\ decryptionContexts' =
           [decryptionContexts EXCEPT ![requestId] =
                DecryptionContext(currentBatchId, stateHash, FALSE)]
    /\ lastDecryptionRequestTime' =
           [lastDecryptionRequestTime EXCEPT ![sender] = now]
    /\ nextRequestId' = nextRequestId + 1
    /\ requested' = [requested EXCEPT ![requestId] =
                        [playerId |-> playerId, wealth |-> playerWealth,
                         threshold |-> currentThreshold]]
    /\ UNCHANGED <<roleVars, paused, cooldownSeconds, lastSubmissionTime,
                   batchVars, cipherVars, now, completed>>

\* The wealth handle myCallback reads for a request: the entry of the wealth
\* store at key context.batchId.
callbackWealth(requestId) ==
    encryptedPlayerWealth[decryptionContexts[requestId].batchId]

\* The digest myCallback recomputes for a request.
currentStateHash(requestId) ==
    _hashCiphertexts(Snapshot(callbackWealth(requestId),
                              encryptedEscapeVelocityThreshold))

\* Variant: the processed flag is not consulted.
myCallbackErr_NoReplayCheck(requestId, proofOk) ==
    IF currentStateHash(requestId) # decryptionContexts[requestId].stateHash
         THEN "StateMismatch"
    ELSE IF ~proofOk THEN "InvalidProof"
    ELSE "ok"

\* Variant: the proof is verified before the digests are compared.
myCallbackErr_ProofFirst(requestId, proofOk) ==
    IF decryptionContexts[requestId].processed THEN "ReplayAttempt"
    ELSE IF ~proofOk THEN "InvalidProof"
    ELSE IF currentStateHash(requestId) # decryptionContexts[requestId].stateHash
         THEN "StateMismatch"
    ELSE "ok"

\* Variant: the recomputed digest is not compared with the stored one.
myCallbackErr_NoDigestCheck(requestId, proofOk) ==
    IF decryptionContexts[requestId].processed THEN "ReplayAttempt"
    ELSE IF ~proofOk THEN "InvalidProof"
    ELSE "ok"

\* Variant: the proof is not verified.
myCallbackErr_NoProofCheck(requestId, proofOk) ==
    IF decryptionContexts[requestId].processed THEN "ReplayAttempt"
    ELSE IF currentStateHash(requestId) # decryptionContexts[requestId].stateHash
         THEN "StateMismatch"
    ELSE "ok"

myCallbackErr(requestId, proofOk) ==
    IF decryptionContexts[requestId].processed THEN "ReplayAttempt"
    ELSE IF currentStateHash(requestId) # decryptionContexts[requestId].stateHash
         THEN "StateMismatch"
    ELSE IF ~proofOk THEN "InvalidProof"
    ELSE "ok"

myCallbackCalls(requestId, proofOk) ==
    IF myCallbackErr(requestId, proofOk) = "ReplayAttempt" THEN {}
    ELSE {FheCall("ge", callbackWealth(requestId),
                  encryptedEscapeVelocityThreshold)}

\* Variant: a completed callback clears the wealth entry it read.
myCallback_ClearsWealth(sender, requestId, proofOk) ==
    LET context == decryptionContexts[requestId] IN
    /\ myCallbackErr(requestId, proofOk) = "ok"
    /\ decryptionContexts' =
           [decryptionContexts EXCEPT ![requestId] =
                DecryptionContext(context.batchId, context.stateHash, TRUE)]
    /\ encryptedPlayerWealth' =
           [encryptedPlayerWealth EXCEPT ![context.batchId] = NoHandle]
    /\ completed' = [completed EXCEPT ![requestId] = Append(@, context.batchId)]
    /\ UNCHANGED <<roleVars, paused, cooldownSeconds, cooldownVars,
                   batchVars, encryptedEscapeVelocityThreshold,
                   encryptedBaseWealth, encryptedBaseThreshold,
                   encryptedThresholdGrowthRate, now, oracleVars>>

myCallback(sender, requestId, proofOk) ==
    LET context == decryptionContexts[requestId] IN
    /\ myCallbackErr(requestId, proofOk) = "ok"
    /\ decryptionContexts' =
           [decryptionContexts EXCEPT ![requestId] =
                DecryptionContext(context.batchId, context.stateHash, TRUE)]
    /\ completed' = [completed EXCEPT ![requestId] = Append(@, context.batchId)]
    /\ UNCHANGED <<roleVars, paused, cooldownSeconds, cooldownVars,
                   batchVars, cipherVars, now, oracleVars>>

\* ------------------------------------------------------------------- time
\* A later block: block.timestamp advances; no storage changes.
Tick ==
    /\ now < MaxTime
    /\ now' = now + TickSeconds
    /\ UNCHANGED <<storage, oracleVars, completed>>

\* The role, pause and cooldown administration.
AdminStep ==
    \/ \E s \in Addresses, n \in Addresses : transferOwnership(s, n)
    \/ \E s \in Addresses, p \in Addresses : removeProvider(s, p)
    \/ \E s \in Addresses, n \in CooldownChoices : setCooldownSeconds(s, n)

\* The batch lifecycle and the submissions, with the pause switch and the
\* enrolment of providers they depend on.
GameStep ==
    \/ \E s \in Addresses, p \in Addresses : addProvider(s, p)
    \/ \E s \in Addresses : pause(s)
    \/ \E s \in Addresses : unpause(s)
    \/ \E s \in Addresses : openBatch(s)
    \/ \E s \in Addresses : closeBatch(s)
    \/ \E s \in Addresses, p \in Players, h \in SubmittedHandles :
           submitPlayerWealth(s, p, h)
    \/ Tick

\* The decryption round trip.
OracleStep ==
    \/ \E s \in Requesters, p \in Players : requestEscapeCheck(s, p)
    \/ \E s \in Addresses, r \in RequestIds, ok \in BOOLEAN : myCallback(s, r, ok)

Next ==
    \/ AdminStep
    \/ GameStep
    \/ OracleStep

Spec == Init /\ [][Next]_vars

\* The contract without decryption requests: every operation of the access
\* control, the batch lifecycle and the submission protocol.
NextAdmin ==
    \/ AdminStep
    \/ GameStep

SpecAdmin == Init /\ [][NextAdmin]_vars

\* The contract under a fixed owner and cooldown length: the batch lifecycle,
\* the submissions and the decryption round trip.  The operations left out
\* (transferOwnership, removeProvider, setCooldownSeconds) write only owner,
\* providers and cooldownSeconds.
NextOracle ==
    \/ GameStep
    \/ OracleStep

SpecOracle == Init /\ [][NextOracle]_vars

\* One provider and one requester under a fixed owner, cooldown length and
\* pause flag: the batch lifecycle, the submissions and the decryption round
\* trip.
NextRound ==
    \/ \E s \in Addresses : openBatch(s)
    \/ \E s \in Addresses : closeBatch(s)
    \/ \E s \in Addresses, p \in Players, h \in SubmittedHandles :
           submitPlayerWealth(s, p, h)
    \/ OracleStep
    \/ Tick

SpecRound == Init /\ [][NextRound]_vars

\* The two cooldown clocks under a cooldown length the owner changes: the
\* submissions and the decryption requests of an open batch.
NextCooldown ==
    \/ \E s \in Addresses, n \in CooldownChoices : setCooldownSeconds(s, n)
    \/ \E s \in Addresses, p \in Addresses : addProvider(s, p)
    \/ \E s \in Addresses : openBatch(s)
    \/ \E s \in Addresses, p \in Players, h \in SubmittedHandles :
           submitPlayerWealth(s, p, h)
    \/ \E s \in Requesters, p \in Players : requestEscapeCheck(s, p)
    \/ Tick

SpecCooldown == Init /\ [][NextCooldown]_vars

\* The guarded operations under a fixed owner and provider set, with the
\* pause switch and the cooldown length the guards read.
NextGuards ==
    \/ \E s \in Addresses, n \in CooldownChoices : setCooldownSeconds(s, n)
    \/ \E s \in Addresses : pause(s)
    \/ \E s \in Addresses : unpause(s)
    \/ \E s \in Addresses : openBatch(s)
    \/ \E s \in Addresses : closeBatch(s)
    \/ \E s \in Addresses, p \in Players, h \in SubmittedHandles :
           submitPlayerWealth(s, p, h)
    \/ \E s \in Requesters, p \in Players : requestEscapeCheck(s, p)
    \/ Tick

SpecGuards == Init /\ [][NextGuards]_vars

\* The eight owner-only operations.
NextOwner ==
    \/ AdminStep
    \/ \E s \in Addresses, p \in Addresses : addProvider(s, p)
    \/ \E s \in Addresses : pause(s)
    \/ \E s \in Addresses : unpause(s)
    \/ \E s \in Addresses : openBatch(s)
    \/ \E s \in Addresses : closeBatch(s)

SpecOwner == Init /\ [][NextOwner]_vars

\* ==================================================================== claims
Issued(requestId) == requested[requestId].playerId # -1

\* Every FHE operation a call would run in the current state, over all calls.
AllFheCalls ==
    UNION ({openBatchCalls(s) : s \in Addresses}
           \cup {requestEscapeCheckCalls(s, p) : s \in Addresses, p \in Players}
           \cup {myCallbackCalls(r, ok) : r \in RequestIds, ok \in BOOLEAN})

\* C1: for every request id at most one myCallback succeeds (sets processed and
\* emits DecryptionCompleted); once the context is processed every further
\* myCallback for that id, with any proof, reverts with ReplayAttempt, and the
\* context stays processed.
C1_AtMostOneCallback ==
    \A r \in RequestIds :
        /\ Len(completed[r]) <= 1
        /\ decryptionContexts[r].processed <=> (Len(completed[r]) = 1)
        /\ decryptionContexts[r].processed =>
               \A ok \in BOOLEAN : myCallbackErr(r, ok) = "ReplayAttempt"

C1_Witness ==
    \E r \in RequestIds :
        /\ Issued(r)
        /\ decryptionContexts[r].processed
        /\ Len(completed[r]) = 1
        /\ myCallbackErr(r, TRUE) = "ReplayAttempt"

\* C2: a callback for a request issued by requestEscapeCheck(P) is accepted
\* only if the stored wealth handle of player P and the threshold handle are
\* the ones the request was issued with; after an overwrite of P's wealth by a
\* different handle the callback reverts with StateMismatch.
C2_AcceptedOnlyIfPlayerUnchanged ==
    \A r \in RequestIds :
        (/\ Issued(r)
         /\ ~decryptionContexts[r].processed
         /\ \/ encryptedPlayerWealth[requested[r].playerId] # requested[r].wealth
            \/ encryptedEscapeVelocityThreshold # requested[r].threshold)
        => myCallbackErr(r, TRUE) = "StateMismatch"

\* C3: if requestEscapeCheck(P) succeeded and neither P's wealth handle nor
\* the threshold handle changed since, a myCallback for the request with a
\* verifying proof succeeds.
C3_UnchangedRequestAccepted ==
    \A r \in RequestIds :
        (/\ Issued(r)
         /\ ~decryptionContexts[r].processed
         /\ encryptedPlayerWealth[requested[r].playerId] = requested[r].wealth
         /\ encryptedEscapeVelocityThreshold = requested[r].threshold)
        => myCallbackErr(r, TRUE) = "ok"

\* C4: a myCallback that recomputes the snapshot digest (the context is not
\* yet processed) and finds it different from the stored stateHash reverts
\* with StateMismatch, with a verifying and with a failing proof alike, for
\* issued and for never-issued request ids.
C4_MismatchAlwaysStateMismatch ==
    \A r \in RequestIds, ok \in BOOLEAN :
        (/\ ~decryptionContexts[r].processed
         /\ currentStateHash(r) # decryptionContexts[r].stateHash)
        => myCallbackErr(r, ok) = "StateMismatch"

C4_Witness ==
    \E r \in RequestIds :
        /\ Issued(r)
        /\ ~decryptionContexts[r].processed
        /\ currentStateHash(r) # decryptionContexts[r].stateHash
        /\ myCallbackErr(r, TRUE) = "StateMismatch"
        /\ myCallbackErr(r, FALSE) = "StateMismatch"

\* C5 as stated: while paused, every operation other than unpause is rejected.
C5_AllRejectedWhilePaused ==
    paused =>
        /\ \A s \in Addresses : transferOwnershipErr(s) # "ok"
        /\ \A s \in Addresses : addProviderErr(s) # "ok"
        /\ \A s \in Addresses : removeProviderErr(s) # "ok"
        /\ \A s \in Addresses : pauseErr(s) # "ok"
        /\ \A s \in Addresses, n \in CooldownChoices : setCooldownSecondsErr(s, n) # "ok"
        /\ \A s \in Addresses : openBatchErr(s) # "ok"
        /\ \A s \in Addresses : closeBatchErr(s) # "ok"
        /\ \A s \in Addresses, p \in Players, h \in SubmittedHandles :
               submitPlayerWealthErr(s, p, h) # "ok"
        /\ \A s \in Addresses, p \in Players : requestEscapeCheckErr(s, p) # "ok"
        /\ \A r \in RequestIds, ok \in BOOLEAN : myCallbackErr(r, ok) # "ok"

\* The operations that carry the whenNotPaused modifier are rejected while
\* paused, the owner's with Paused.
C5_GatedRejected ==
    paused =>
        /\ \A s \in Addresses : pauseErr(s) # "ok"
        /\ \A s \in Addresses : openBatchErr(s) # "ok"
        /\ \A s \in Addresses : closeBatchErr(s) # "ok"
        /\ \A s \in Addresses, p \in Players, h \in SubmittedHandles :
               submitPlayerWealthErr(s, p, h) # "ok"
        /\ \A s \in Addresses, p \in Players : requestEscapeCheckErr(s, p) # "ok"
        /\ pauseErr(owner) = "Paused"
        /\ openBatchErr(owner) = "Paused"
        /\ closeBatchErr(owner) = "Paused"

\* The operations without the modifier are not affected by the pause flag.
C5_UngatedNotRejected ==
    /\ transferOwnershipErr(owner) = "ok"
    /\ addProviderErr(owner) = "ok"
    /\ removeProviderErr(owner) = "ok"
    /\ \A n \in CooldownChoices \ {0} : setCooldownSecondsErr(owner, n) = "ok"
    /\ \A r \in RequestIds, ok \in BOOLEAN : myCallbackErr(r, ok) # "Paused"

\* C5 (amended): while paused, pause, openBatch, closeBatch,
\* submitPlayerWealth and requestEscapeCheck are rejected and no step changes
\* the batch, the ciphertexts, the cooldown timestamps or the pending
\* requests; transferOwnership, addProvider, removeProvider and
\* setCooldownSeconds by the owner still succeed and myCallback is never
\* rejected with Paused.
C5_PausedBlocksGatedOperations ==
    /\ [](C5_GatedRejected /\ C5_UngatedNotRejected)
    /\ [][paused => UNCHANGED <<batchVars, cipherVars, cooldownVars, oracleVars>>]_vars

C5_Witness ==
    /\ paused
    /\ batchOpen
    /\ \E s \in providers, p \in Players :
           /\ submitPlayerWealthErr(s, p, InputHandle(1)) = "Paused"
           /\ isInitialized(encryptedPlayerWealth[p])
           /\ requestEscapeCheckErr(s, p) = "Paused"
    /\ closeBatchErr(owner) = "Paused"

\* The owner-only operations as steps of one sender.
OwnerOnlyStep(s) ==
    \/ \E n \in Addresses : transferOwnership(s, n)
    \/ \E p \in Addresses : addProvider(s, p)
    \/ \E p \in Addresses : removeProvider(s, p)
    \/ pause(s)
    \/ unpause(s)
    \/ \E n \in CooldownChoices : setCooldownSeconds(s, n)
    \/ openBatch(s)
    \/ closeBatch(s)

C6_NonOwnerRejected ==
    \A s \in Addresses \ {owner} :
        /\ transferOwnershipErr(s) = "NotOwner"
        /\ addProviderErr(s) = "NotOwner"
        /\ removeProviderErr(s) = "NotOwner"
        /\ pauseErr(s) = "NotOwner"
        /\ unpauseErr(s) = "NotOwner"
        /\ \A n \in CooldownChoices : setCooldownSecondsErr(s, n) = "NotOwner"
        /\ openBatchErr(s) = "NotOwner"
        /\ closeBatchErr(s) = "NotOwner"

\* C6: in every reachable state, ownership transfers included, each of
\* transferOwnership, addProvider, removeProvider, pause, unpause,
\* setCooldownSeconds, openBatch and closeBatch called by an address other
\* than the current owner reverts with NotOwner, and no step is such a call
\* taking effect.
C6_OnlyOwner ==
    /\ []C6_NonOwnerRejected
    /\ [][\A s \in Addresses \ {owner} : ~OwnerOnlyStep(s)]_vars

C6_Witness ==
    /\ owner # Deployer
    /\ Deployer \in providers
    /\ paused
    /\ pauseErr(Deployer) = "NotOwner"
    /\ unpauseErr(Deployer) = "NotOwner"

\* The conditions under which C7 says a submission fails.
SubmissionMustFail(s, h) ==
    \/ ~batchOpen
    \/ s \notin providers
    \/ now < lastSubmissionTime[s] + cooldownSeconds
    \/ h = NoHandle

\* C7: submitPlayerWealth fails whenever the batch is closed, the caller is
\* not a provider, the caller's submission cooldown has not elapsed or the
\* handle is uninitialized, and no step is such a submission taking effect
\* on the wealth store or the cooldown timestamps.
C7_SubmissionRejected ==
    /\ [](\A s \in Addresses, p \in Players, h \in SubmittedHandles :
              SubmissionMustFail(s, h) => submitPlayerWealthErr(s, p, h) # "ok")
    /\ [][\A s \in Addresses, p \in Players, h \in SubmittedHandles :
              SubmissionMustFail(s, h) => ~submitPlayerWealth(s, p, h)]_vars

C7_Witness ==
    /\ ~paused
    /\ batchOpen
    /\ \E s \in providers :
           /\ lastSubmissionTime[s] = now
           /\ submitPlayerWealthErr(s, 0, InputHandle(1)) = "CooldownActive"
    /\ \E s \in Addresses :
           submitPlayerWealthErr(s, 0, InputHandle(1)) = "NotProvider"

\* C8: a successful submitPlayerWealth(playerId, h) by A stores exactly h for
\* playerId, sets lastSubmissionTime[A] to the current time, and changes no
\* other player's wealth and no other address's submission clock.
C8_SubmissionReplaces ==
    [][\A s \in Addresses, p \in Players, h \in SubmittedHandles :
           submitPlayerWealth(s, p, h) =>
               /\ encryptedPlayerWealth'[p] = h
               /\ lastSubmissionTime'[s] = now
               /\ \A q \in WealthKeys \ {p} :
                      encryptedPlayerWealth'[q] = encryptedPlayerWealth[q]
               /\ \A a \in Addresses \ {s} :
                      lastSubmissionTime'[a] = lastSubmissionTime[a]]_vars

\* A player's wealth was overwritten at a later time than another submission.
C8_Witness ==
    \E s \in Addresses, p \in Players :
        /\ lastSubmissionTime[s] = now
        /\ now > DeployTime
        /\ encryptedPlayerWealth[p] = InputHandle(2)
        /\ \E a \in Addresses \ {s} : lastSubmissionTime[a] = DeployTime

\* C9: no call hands an uninitialized handle to a homomorphic operation.
C9_NoUninitializedOperand ==
    \A c \in AllFheCalls : isInitialized(c.lhs) /\ isInitialized(c.rhs)

\* C10: closeBatch leaves currentBatchId unchanged, and the openBatch that
\* follows a closeBatch advances the batch id.
C10_OpenAfterCloseAdvances ==
    [][/\ \A s \in Addresses : closeBatch(s) => currentBatchId' = currentBatchId
       /\ (/\ ~batchOpen
           /\ isInitialized(encryptedEscapeVelocityThreshold)
           /\ batchOpen')
          => currentBatchId' = currentBatchId + 1]_vars

\* C11: openBatch by the owner while a batch is open and the contract is not
\* paused succeeds, and every openBatch that takes effect while a batch is
\* open increases currentBatchId by exactly one, leaves the batch open and
\* stores the threshold of the new id, 1000 + 50 * (currentBatchId + 1).
C11_ReopenAdvances ==
    /\ []((batchOpen /\ ~paused) => openBatchErr(owner) = "ok")
    /\ [][\A s \in Addresses :
              (batchOpen /\ openBatch(s)) =>
                  /\ currentBatchId' = currentBatchId + 1
                  /\ batchOpen'
                  /\ decrypt(encryptedEscapeVelocityThreshold') =
                         BaseThreshold
                         + ThresholdGrowthRate * (currentBatchId + 1)
                  /\ encryptedEscapeVelocityThreshold'
                         # encryptedEscapeVelocityThreshold]_vars

C11_Witness ==
    /\ currentBatchId = 1
    /\ batchOpen
    /\ decrypt(encryptedEscapeVelocityThreshold)
           = BaseThreshold + ThresholdGrowthRate

\* C12 as stated: while no batch is open, closeBatch by the owner fails with
\* BatchNotOpen.
C12_ClosedAlwaysBatchNotOpen ==
    ~batchOpen => closeBatchErr(owner) = "BatchNotOpen"

\* C12 (amended): while no batch is open closeBatch always fails, with
\* NotOwner for a caller other than the owner, with Paused for the owner
\* while the contract is paused and with BatchNotOpen for the owner
\* otherwise, and no step is a closeBatch taking effect on a closed batch.
C12_ClosedBatchCannotClose ==
    /\ [](~batchOpen =>
             \A s \in Addresses :
                 closeBatchErr(s) = (IF s # owner THEN "NotOwner"
                                     ELSE IF paused THEN "Paused"
                                     ELSE "BatchNotOpen"))
    /\ [][\A s \in Addresses : ~batchOpen => ~closeBatch(s)]_vars

\* A batch was opened and closed again, and the owner's closeBatch is
\* rejected with BatchNotOpen.
C12_Witness ==
    /\ ~batchOpen
    /\ isInitialized(encryptedEscapeVelocityThreshold)
    /\ ~paused
    /\ closeBatchErr(owner) = "BatchNotOpen"

\* C13: whenever the threshold has been set, its plaintext is
\* 1000 + 50 * currentBatchId, and every step that changes currentBatchId
\* stores the threshold of the new id.
C13_ThresholdFollowsBatchId ==
    /\ [](isInitialized(encryptedEscapeVelocityThreshold) =>
             decrypt(encryptedEscapeVelocityThreshold) =
                 BaseThreshold + ThresholdGrowthRate * currentBatchId)
    /\ [][currentBatchId' # currentBatchId =>
              /\ encryptedEscapeVelocityThreshold'
                     # encryptedEscapeVelocityThreshold
              /\ decrypt(encryptedEscapeVelocityThreshold') =
                     BaseThreshold + ThresholdGrowthRate * currentBatchId']_vars

\* The second batch was opened and closed.
C13_Witness ==
    /\ ~batchOpen
    /\ currentBatchId = 1
    /\ encryptedEscapeVelocityThreshold =
           <<3, 2, BaseThreshold, 4, 2, ThresholdGrowthRate, 2, 1>>
    /\ decrypt(encryptedEscapeVelocityThreshold) = 1050

\* C15: a callback may arrive in any state, so a mismatch is permanent
\* exactly when no step leads from a state in which a myCallback for an
\* issued request id is rejected with StateMismatch to a state in which it
\* is not: once stale, the context stays stale and is never accepted.
C15_MismatchPermanent ==
    [][\A r \in RequestIds :
           (Issued(r) /\ myCallbackErr(r, TRUE) = "StateMismatch")
           => (myCallbackErr(r, TRUE) = "StateMismatch")']_vars

\* C16: for every caller, provider or not, requestEscapeCheck(P) succeeds
\* whenever the contract is not paused, the caller's decryption-request
\* cooldown has elapsed, the batch is open and P's wealth handle is
\* initialized; with the contract not paused and the cooldown elapsed it
\* fails with BatchNotOpen when the batch is closed and with NotInitialized
\* when the batch is open and P has no stored wealth.
C16_RequestOpenToAnyone ==
    \A s \in Addresses, p \in Players :
        (~paused /\ now >= lastDecryptionRequestTime[s] + cooldownSeconds) =>
            requestEscapeCheckErr(s, p) =
                (IF ~batchOpen THEN "BatchNotOpen"
                 ELSE IF encryptedPlayerWealth[p] = NoHandle
                      THEN "NotInitialized"
                 ELSE "ok")

\* An address that is not a provider has just issued a request, and a
\* request for the player without wealth would be rejected.
C16_Witness ==
    \E s \in Addresses \ providers, p \in Players :
        /\ Issued(0)
        /\ lastDecryptionRequestTime[s] = now
        /\ requested[0].playerId = p
        /\ \E q \in Players \ {p}, t \in Addresses \ {s} :
               requestEscapeCheckErr(t, q) = "NotInitialized"

\* C17: a requestEscapeCheck(P) that takes effect stores under the oracle's
\* next request id the context {batchId = currentBatchId, stateHash = digest
\* of [P's wealth, threshold, wealth >= threshold], processed = false},
\* leaves every other context alone, sets the caller's decryption-request
\* timestamp to the current time and no other address's, and changes no
\* wealth, threshold, batch, role, pause, cooldown-length or
\* submission-timestamp state.
C17_RequestStoresContext ==
    [][\A s \in Addresses, p \in Players :
           requestEscapeCheck(s, p) =>
               LET w == encryptedPlayerWealth[p]
                   t == encryptedEscapeVelocityThreshold
               IN
               /\ decryptionContexts'[nextRequestId] =
                      [batchId |-> currentBatchId,
                       stateHash |-> <<(<<w, t, <<5>> \o w \o t>>), ThisContract>>,
                       processed |-> FALSE]
               /\ \A r \in RequestIds \ {nextRequestId} :
                      decryptionContexts'[r] = decryptionContexts[r]
               /\ lastDecryptionRequestTime'[s] = now
               /\ \A a \in Addresses \ {s} :
                      lastDecryptionRequestTime'[a] = lastDecryptionRequestTime[a]
               /\ UNCHANGED <<roleVars, paused, cooldownSeconds,
                              lastSubmissionTime, batchVars, cipherVars>>]_vars

\* A request issued in the second batch, by an address that has not
\* submitted at that time, is pending.
C17_Witness ==
    \E s \in Addresses :
        /\ Issued(0)
        /\ decryptionContexts[0].batchId = 1
        /\ ~decryptionContexts[0].processed
        /\ decryptionContexts[0].stateHash # NoHash
        /\ lastDecryptionRequestTime[s] = now
        /\ lastSubmissionTime[s] # now
        /\ \E a \in Addresses \ {s} : lastDecryptionRequestTime[a] = 0

\* C18: every step that changes the stored wealth handle of a player id is a
\* submitPlayerWealth for that id taking effect; openBatch, closeBatch,
\* requestEscapeCheck, myCallback and the role and pause operations leave
\* the wealth store as it is.
C18_WealthOnlyBySubmission ==
    [][\A p \in WealthKeys :
           encryptedPlayerWealth'[p] # encryptedPlayerWealth[p] =>
               \E s \in Addresses, h \in SubmittedHandles :
                   /\ p \in Players
                   /\ submitPlayerWealth(s, p, h)]_vars

\* A wealth handle submitted and requested in the first batch is still
\* stored in the second batch: every submission is older than the request,
\* and the request carries batch id 0.
C18_Witness ==
    /\ Issued(0)
    /\ decryptionContexts[0].batchId = 0
    /\ currentBatchId = 1
    /\ \A a \in Addresses :
           lastSubmissionTime[a] < lastDecryptionRequestTime["a2"]
    /\ isInitialized(encryptedPlayerWealth[requested[0].playerId])
    /\ encryptedPlayerWealth[requested[0].playerId] = requested[0].wealth

C20_CloseKeepsRequestValid ==
    [][\A s \in Addresses :
           closeBatch(s) =>
               /\ currentBatchId' = currentBatchId
               /\ \A r \in RequestIds :
                      (/\ Issued(r)
                       /\ ~decryptionContexts[r].processed
                       /\ decryptionContexts[r].batchId = currentBatchId
                       /\ encryptedPlayerWealth[requested[r].playerId]
                              = requested[r].wealth
                       /\ encryptedEscapeVelocityThreshold
                              = requested[r].threshold)
                      => (myCallbackErr(r, TRUE) = "ok")']_vars

\* C21: the processed flag of a context changes only from false to true, and
\* every step that changes it is a myCallback for that request id taking
\* effect; no other operation sets, clears or expires it.
C21_ProcessedOnlyByCallback ==
    [][\A r \in RequestIds :
           decryptionContexts'[r].processed # decryptionContexts[r].processed =>
               /\ ~decryptionContexts[r].processed
               /\ decryptionContexts'[r].processed
               /\ Issued(r)
               /\ \E s \in Addresses : myCallback(s, r, TRUE)]_vars

\* A request was completed in the first batch and is still processed after
\* the batch id advanced and the batch was closed.
C21_Witness ==
    \E r \in RequestIds :
        /\ Issued(r)
        /\ decryptionContexts[r].processed
        /\ decryptionContexts[r].batchId < currentBatchId
        /\ ~batchOpen

\* C22: every step that changes currentBatchId is an openBatch taking effect
\* while a batch is open, and it adds exactly one; so the id never decreases
\* and never goes below its initial value 0.
C22_BatchIdMonotone ==
    /\ [](currentBatchId >= 0)
    /\ [][currentBatchId' # currentBatchId =>
              /\ currentBatchId' = currentBatchId + 1
              /\ batchOpen
              /\ batchOpen'
              /\ \E s \in Addresses : openBatch(s)]_vars

\* The batch id has advanced, at a later block than the deployment, and the
\* owner can advance it again.
C22_Witness ==
    /\ currentBatchId = 1
    /\ batchOpen
    /\ now > DeployTime
    /\ openBatchErr(owner) = "ok"

\* C23: pause by the owner is rejected with Paused while the contract is
\* paused and succeeds otherwise; unpause by the owner succeeds in every
\* state, paused or not; a pause that takes effect starts from paused = false
\* and every unpause leaves paused = false.
C23_PauseUnpauseAsymmetry ==
    /\ [](/\ pauseErr(owner) = (IF paused THEN "Paused" ELSE "ok")
          /\ unpauseErr(owner) = "ok")
    /\ [][\A s \in Addresses :
              /\ pause(s) => (~paused /\ paused')
              /\ unpause(s) => ~paused']_vars

\* The contract is paused with a batch open under an owner other than the
\* deployer.
C23_Witness ==
    /\ paused
    /\ owner # Deployer
    /\ batchOpen
    /\ pauseErr(owner) = "Paused"
    /\ unpauseErr(owner) = "ok"
    /\ unpauseErr(Deployer) = "NotOwner"

\* C24: addProvider and removeProvider by the owner succeed whatever the
\* provider flag of the address is; after addProvider(p) the address p is a
\* provider and after removeProvider(p) it is not, and the flag of every
\* other address is as before, so a second application changes nothing.
C24_ProviderIdempotent ==
    /\ [](addProviderErr(owner) = "ok" /\ removeProviderErr(owner) = "ok")
    /\ [][\A s \in Addresses, p \in Addresses :
              /\ addProvider(s, p) =>
                     /\ p \in providers'
                     /\ \A q \in Addresses \ {p} :
                            (q \in providers') <=> (q \in providers)
              /\ removeProvider(s, p) =>
                     /\ p \notin providers'
                     /\ \A q \in Addresses \ {p} :
                            (q \in providers') <=> (q \in providers)]_vars

\* The deployer was removed and the other address enrolled; the deployer,
\* still the owner, can add a provider again and remove a non-provider.
C24_Witness ==
    /\ owner = Deployer
    /\ providers = Addresses \ {Deployer}
    /\ addProviderErr(owner) = "ok"
    /\ removeProviderErr(owner) = "ok"

\* C25: cooldownSeconds is positive in every reachable state, and
\* setCooldownSeconds(0) by the owner is rejected with InvalidParameters.
C25_CooldownPositive ==
    /\ cooldownSeconds > 0
    /\ setCooldownSecondsErr(owner, 0) = "InvalidParameters"

\* The owner has changed the cooldown length.
C25_Witness ==
    /\ cooldownSeconds # DefaultCooldown
    /\ cooldownSeconds > 0
    /\ setCooldownSecondsErr(owner, 0) = "InvalidParameters"
    /\ setCooldownSecondsErr(owner, DefaultCooldown) = "ok"

\* C26: while the owner is not a provider, the owner passes the owner check
\* of every owner-only operation and every submitPlayerWealth by the owner is
\* rejected with NotProvider; and no addProvider or removeProvider step
\* changes the owner.
C26_OwnerProviderIndependent ==
    /\ [](owner \notin providers =>
             /\ transferOwnershipErr(owner) = "ok"
             /\ addProviderErr(owner) = "ok"
             /\ removeProviderErr(owner) = "ok"
             /\ unpauseErr(owner) = "ok"
             /\ \A n \in CooldownChoices \ {0} :
                    setCooldownSecondsErr(owner, n) = "ok"
             /\ pauseErr(owner) # "NotOwner"
             /\ openBatchErr(owner) # "NotOwner"
             /\ closeBatchErr(owner) # "NotOwner"
             /\ \A p \in Players, h \in SubmittedHandles :
                    submitPlayerWealthErr(owner, p, h) = "NotProvider")
    /\ [][\A s \in Addresses, p \in Addresses :
              (addProvider(s, p) \/ removeProvider(s, p)) => owner' = owner]_vars

\* The deployer, still the owner, has been removed from the providers while
\* a batch is open: closing the batch is allowed, submitting is not.
C26_Witness ==
    /\ owner = Deployer
    /\ Deployer \notin providers
    /\ batchOpen
    /\ ~paused
    /\ closeBatchErr(owner) = "ok"
    /\ submitPlayerWealthErr(owner, 0, InputHandle(1)) = "NotProvider"

\* C27: for a context that is not processed and whose digest matches, a
\* myCallback with a failing proof is rejected with InvalidProof and one with
\* a verifying proof is accepted; and every step that emits
\* DecryptionCompleted for a request id is a myCallback with a verifying
\* proof taken in a state where the digest matches.
C27_ProofCheckedAfterDigest ==
    /\ [](\A r \in RequestIds :
              (/\ ~decryptionContexts[r].processed
               /\ currentStateHash(r) = decryptionContexts[r].stateHash)
              => /\ myCallbackErr(r, FALSE) = "InvalidProof"
                 /\ myCallbackErr(r, TRUE) = "ok")
    /\ [][\A r \in RequestIds :
              completed'[r] # completed[r] =>
                  /\ currentStateHash(r) = decryptionContexts[r].stateHash
                  /\ ~decryptionContexts[r].processed
                  /\ \A s \in Addresses : ~myCallback(s, r, FALSE)
                  /\ \E s \in Addresses : myCallback(s, r, TRUE)]_vars

\* A pending request whose digest matches: the failing proof is rejected, the
\* verifying one would be accepted.
C27_Witness ==
    \E r \in RequestIds :
        /\ Issued(r)
        /\ ~decryptionContexts[r].processed
        /\ completed[r] = <<>>
        /\ currentStateHash(r) = decryptionContexts[r].stateHash
        /\ myCallbackErr(r, FALSE) = "InvalidProof"
        /\ myCallbackErr(r, TRUE) = "ok"

\* C28: a submitPlayerWealth by A that takes effect changes no address's
\* decryption-request timestamp and no other address's submission timestamp;
\* a requestEscapeCheck by A that takes effect changes no address's
\* submission timestamp and no other address's decryption-request timestamp.
C28_SeparateClocks ==
    [][/\ \A s \in Addresses, p \in Players, h \in SubmittedHandles :
              submitPlayerWealth(s, p, h) =>
                  /\ lastDecryptionRequestTime' = lastDecryptionRequestTime
                  /\ \A a \in Addresses \ {s} :
                         lastSubmissionTime'[a] = lastSubmissionTime[a]
       /\ \A s \in Addresses, p \in Players :
              requestEscapeCheck(s, p) =>
                  /\ lastSubmissionTime' = lastSubmissionTime
                  /\ \A a \in Addresses \ {s} :
                         lastDecryptionRequestTime'[a]
                             = lastDecryptionRequestTime[a]]_vars

\* One address requested in the deployment block and never submitted, the
\* other submitted one tick later and never requested.
C28_Witness ==
    \E a \in Addresses, b \in Addresses :
        /\ a # b
        /\ now > DeployTime
        /\ lastSubmissionTime[a] = now
        /\ lastDecryptionRequestTime[a] = 0
        /\ lastDecryptionRequestTime[b] = DeployTime
        /\ lastSubmissionTime[b] = 0

\* C29: the error of submitPlayerWealth is the first violated guard in the
\* order NotProvider, Paused, CooldownActive, BatchNotOpen, NotInitialized,
\* and the error of requestEscapeCheck the first in the order Paused,
\* CooldownActive, BatchNotOpen, NotInitialized, whichever other guards are
\* violated as well.
C29_ErrorPrecedence ==
    /\ \A s \in Addresses, p \in Players, h \in SubmittedHandles :
           submitPlayerWealthErr(s, p, h) =
               CASE s \notin providers -> "NotProvider"
                 [] s \in providers /\ paused -> "Paused"
                 [] s \in providers /\ ~paused
                    /\ now < lastSubmissionTime[s] + cooldownSeconds
                        -> "CooldownActive"
                 [] s \in providers /\ ~paused
                    /\ now >= lastSubmissionTime[s] + cooldownSeconds
                    /\ ~batchOpen -> "BatchNotOpen"
                 [] s \in providers /\ ~paused
                    /\ now >= lastSubmissionTime[s] + cooldownSeconds
                    /\ batchOpen /\ h = NoHandle -> "NotInitialized"
                 [] OTHER -> "ok"
    /\ \A s \in Addresses, p \in Players :
           requestEscapeCheckErr(s, p) =
               CASE paused -> "Paused"
                 [] ~paused
                    /\ now < lastDecryptionRequestTime[s] + cooldownSeconds
                        -> "CooldownActive"
                 [] ~paused
                    /\ now >= lastDecryptionRequestTime[s] + cooldownSeconds
                    /\ ~batchOpen -> "BatchNotOpen"
                 [] ~paused
                    /\ now >= lastDecryptionRequestTime[s] + cooldownSeconds
                    /\ batchOpen /\ encryptedPlayerWealth[p] = NoHandle
                        -> "NotInitialized"
                 [] OTHER -> "ok"

\* Every guard of a submission is violated at once for an address that is
\* not a provider, and every guard of a request for the address that has
\* just requested.
C29_Witness ==
    /\ paused
    /\ ~batchOpen
    /\ \E s \in Addresses \ providers :
           /\ now < lastSubmissionTime[s] + cooldownSeconds
           /\ submitPlayerWealthErr(s, 0, NoHandle) = "NotProvider"
    /\ \E s \in providers :
           /\ now < lastSubmissionTime[s] + cooldownSeconds
           /\ submitPlayerWealthErr(s, 0, NoHandle) = "Paused"
    /\ \E s \in Addresses, p \in Players :
           /\ Issued(0)
           /\ lastDecryptionRequestTime[s] = now
           /\ encryptedPlayerWealth[p] = NoHandle
           /\ requestEscapeCheckErr(s, p) = "Paused"

\* C30 as stated: every myCallback for a request issued before the batch id
\* advanced is rejected with StateMismatch.
C30_StaleAlwaysStateMismatch ==
    \A r \in RequestIds :
        (Issued(r) /\ decryptionContexts[r].batchId < currentBatchId)
        => myCallbackErr(r, TRUE) = "StateMismatch"

\* C30 (amended): once the batch id has advanced past the one a request was
\* issued in, every myCallback for the request is rejected, with
\* StateMismatch while the request is pending and with ReplayAttempt if it
\* was completed before; and every myCallback that takes effect has
\* context.batchId equal to currentBatchId.
C30_StaleRequestRejected ==
    /\ [](\A r \in RequestIds, ok \in BOOLEAN :
              (Issued(r) /\ decryptionContexts[r].batchId < currentBatchId)
              => myCallbackErr(r, ok) =
                     (IF decryptionContexts[r].processed THEN "ReplayAttempt"
                      ELSE "StateMismatch"))
    /\ [][\A s \in Addresses, r \in RequestIds, ok \in BOOLEAN :
              myCallback(s, r, ok) =>
                  decryptionContexts[r].batchId = currentBatchId]_vars

\* A pending request of the first batch, with the wealth handle the callback
\* reads still the requested one, after the batch id advanced.
C30_Witness ==
    \E r \in RequestIds :
        /\ Issued(r)
        /\ ~decryptionContexts[r].processed
        /\ decryptionContexts[r].batchId = 0
        /\ currentBatchId = 1
        /\ callbackWealth(r) = requested[r].wealth
        /\ encryptedPlayerWealth[requested[r].playerId] = requested[r].wealth
        /\ myCallbackErr(r, TRUE) = "StateMismatch"

\* C31: a myCallback for a request id that no requestEscapeCheck has issued
\* is rejected with any proof, its context stays the default one, it has no
\* DecryptionCompleted event, and no myCallback that takes effect names such
\* an id.
C31_UnissuedNeverAccepted ==
    /\ [](\A r \in RequestIds :
              ~Issued(r) =>
                  /\ \A ok \in BOOLEAN : myCallbackErr(r, ok) = "StateMismatch"
                  /\ decryptionContexts[r] = DecryptionContext(0, NoHash, FALSE)
                  /\ completed[r] = <<>>)
    /\ [][\A s \in Addresses, r \in RequestIds, ok \in BOOLEAN :
              myCallback(s, r, ok) => Issued(r)]_vars

\* One request has been issued and completed in an open batch with the
\* wealth of key 0 stored; another request id was never issued.
C31_Witness ==
    \E r \in RequestIds, q \in RequestIds :
        /\ ~Issued(r)
        /\ Issued(q)
        /\ decryptionContexts[q].processed
        /\ batchOpen
        /\ isInitialized(encryptedPlayerWealth[0])
        /\ myCallbackErr(r, TRUE) = "StateMismatch"

\* C32: a myCallback that takes effect sets the processed flag of the context
\* of its request id, keeps that context's batchId and stateHash and every
\* other context, and changes none of owner, providers, paused,
\* cooldownSeconds, the two timestamp maps, currentBatchId, batchOpen, the
\* wealth store, the threshold and the base handles.
C32_CallbackFrame ==
    [][\A s \in Addresses, r \in RequestIds, ok \in BOOLEAN :
           myCallback(s, r, ok) =>
               /\ decryptionContexts'[r] =
                      [batchId |-> decryptionContexts[r].batchId,
                       stateHash |-> decryptionContexts[r].stateHash,
                       processed |-> TRUE]
               /\ \A q \in RequestIds \ {r} :
                      decryptionContexts'[q] = decryptionContexts[q]
               /\ UNCHANGED <<roleVars, paused, cooldownSeconds, cooldownVars,
                              batchVars, cipherVars>>]_vars

\* A request of the second batch has been completed: its event carries the
\* batch id, the wealth it covered is still stored and the batch still open.
C32_Witness ==
    \E r \in RequestIds :
        /\ Issued(r)
        /\ decryptionContexts[r].processed
        /\ completed[r] = <<1>>
        /\ currentBatchId = 1
        /\ batchOpen
        /\ encryptedPlayerWealth[requested[r].playerId] = requested[r].wealth
        /\ encryptedEscapeVelocityThreshold = requested[r].threshold

\* The address passes the owner check of every owner-only operation.
PassesOwnerCheck(a) ==
    /\ transferOwnershipErr(a) = "ok"
    /\ addProviderErr(a) = "ok"
    /\ removeProviderErr(a) = "ok"
    /\ unpauseErr(a) = "ok"
    /\ \A n \in CooldownChoices \ {0} : setCooldownSecondsErr(a, n) = "ok"
    /\ pauseErr(a) # "NotOwner"
    /\ openBatchErr(a) # "NotOwner"
    /\ closeBatchErr(a) # "NotOwner"

\* Every owner-only operation rejects the address with NotOwner.
FailsOwnerCheck(a) ==
    /\ transferOwnershipErr(a) = "NotOwner"
    /\ addProviderErr(a) = "NotOwner"
    /\ removeProviderErr(a) = "NotOwner"
    /\ unpauseErr(a) = "NotOwner"
    /\ \A n \in CooldownChoices : setCooldownSecondsErr(a, n) = "NotOwner"
    /\ pauseErr(a) = "NotOwner"
    /\ openBatchErr(a) = "NotOwner"
    /\ closeBatchErr(a) = "NotOwner"

\* C33: in every state exactly one address passes the owner checks; a
\* transferOwnership(n) that takes effect is called by the owner, and after
\* it n passes the owner checks, every other address, the old owner
\* included, is rejected with NotOwner, and the provider set is as before.
C33_SingleOwner ==
    /\ [](\A a \in Addresses :
              IF a = owner THEN PassesOwnerCheck(a) ELSE FailsOwnerCheck(a))
    /\ [][\A s \in Addresses, n \in Addresses :
              transferOwnership(s, n) =>
                  /\ s = owner
                  /\ providers' = providers
                  /\ PassesOwnerCheck(n)'
                  /\ \A a \in Addresses \ {n} : FailsOwnerCheck(a)']_vars

\* The ownership went to an address that is not a provider; the deployer is
\* still a provider and no longer the owner.
C33_Witness ==
    /\ owner # Deployer
    /\ owner \notin providers
    /\ Deployer \in providers
    /\ FailsOwnerCheck(Deployer)
    /\ PassesOwnerCheck(owner)
    /\ openBatchErr(owner) = "ok"
====
